---- MODULE Spec2Model ----
(***************************************************************************)
(* A model of the IoT security dashboard backend (backend/app/main.py and  *)
(* backend/app/auth.py): the connection manager with its asyncio lock, the *)
(* push-channel sessions, the /ingest and /simulator/toggle handlers with  *)
(* their middleware and dependencies, and the in-memory rate limiter.      *)
(*                                                                         *)
(* Coroutines are modelled one action per atomic segment: the code between *)
(* two suspension points (an await that can actually suspend) runs without *)
(* interleaving on the event loop, so it is one step of the model.         *)
(***************************************************************************)
EXTENDS Integers, Sequences, FiniteSets, TLC

VARIABLES
    active_connections,   \* manager.active_connections: list of sessions
    frontend_ready,       \* manager.frontend_ready
    backlog,              \* manager._backlog: list of messages
    lockHolder,           \* manager._lock: the task holding it, 0 when free
    lockWaiters,          \* manager._lock: FIFO queue of tasks waiting for it
    pc,                   \* position of every task (session or request handler)
    sb,                   \* _safe_broadcast locals of a task: message, rest of the snapshot, stale
    flush,                \* mark_ready locals: the backlog slice iterated and the position in it
    ev,                   \* ingest_event locals: event id, broadcast stage, anomaly due
    alive,                \* whether the client side of a session is still open
    wsToken,              \* the token query parameter a session presented
    closeCode,            \* the close code sent to a rejected session, 0 when none
    sent,                 \* per session: the frames delivered to it, with the sending task
    calls,                \* every manager.broadcast call: message, frontend_ready as read, caller
    marks,                \* how many times the body of mark_ready has run, counted up to 2
    events,               \* the events table
    now,                  \* the clock read by time.time() and by the database
    rate_store,           \* _rate_store: per address, the timestamps kept
    accepted,             \* per address, every timestamp check_rate_limit accepted
    SIMULATION_ACTIVE,    \* the simulator flag
    resp,                 \* the last HTTP exchange: the request and its answer
    API_KEY,              \* auth.API_KEY
    HMAC_SECRET,          \* auth.HMAC_SECRET
    WS_FRONTEND_TOKEN     \* the configured push-channel token, stripped

mgrVars == <<active_connections, frontend_ready, backlog, lockHolder, lockWaiters>>
taskVars == <<pc, sb, flush, ev>>
wsVars == <<alive, wsToken, closeCode, sent>>
rateVars == <<rate_store, accepted>>
cfgVars == <<API_KEY, HMAC_SECRET, WS_FRONTEND_TOKEN>>
vars ==
    <<mgrVars, taskVars, wsVars, calls, marks, events, now, rateVars, SIMULATION_ACTIVE, resp,
      cfgVars>>

----------------------------------------------------------------------------
(* Bounds of the model *)

\* The number of manager.broadcast calls made in a run
MaxCalls == 4
\* BACKLOG_SIZE (500 unless the environment sets it), made small
BACKLOG_SIZE == 2

\* The tasks: two push-channel sessions, numbered in the order of their
\* connection attempts, and one handler of /ingest requests at a time
Sessions == {1, 2}
Handlers == {3}
Tasks == Sessions \cup Handlers

----------------------------------------------------------------------------
(* Sequences *)

RECURSIVE Remove(_, _)
\* list.remove(x): drops the first occurrence
Remove(s, x) ==
    IF s = <<>> THEN <<>>
    ELSE IF Head(s) = x THEN Tail(s)
    ELSE <<Head(s)>> \o Remove(Tail(s), x)

Contains(s, x) == \E i \in DOMAIN s : s[i] = x

\* s[-n:] for n >= 1
LastN(s, n) == IF Len(s) <= n THEN s ELSE SubSeq(s, Len(s) - n + 1, Len(s))

----------------------------------------------------------------------------
(* Strings that matter character by character are sequences of characters *)

RECURSIVE LStrip(_)
LStrip(s) == IF s # <<>> /\ Head(s) = " " THEN LStrip(Tail(s)) ELSE s

RECURSIVE RStrip(_)
RStrip(s) ==
    IF s # <<>> /\ s[Len(s)] = " " THEN RStrip(SubSeq(s, 1, Len(s) - 1)) ELSE s

\* str.strip()
Strip(s) == RStrip(LStrip(s))

\* A value that is None in the program
None == <<"None">>

\* x or "" for an optional string
OrEmpty(x) == IF x = None THEN <<>> ELSE x

\* The values the WS_FRONTEND_TOKEN environment variable is given
TokenEnv == {None, <<" ">>, <<"t", "k">>, <<"t", "k", " ">>}

\* The token query parameters a client presents (None: no such parameter)
QueryTokens ==
    {None, <<>>, <<"t", "k">>, <<" ", "t", "k">>, <<"t">>, <<"T", "k">>, <<"t", " ", "k">>}

\* The token presented in the specification of the manager
MgrTokens == {<<"t", "k">>}

----------------------------------------------------------------------------
(* Messages *)

EventMsg(id) == [id |-> id, type |-> "event"]
AnomalyMsg(id) == [id |-> id, type |-> "anomaly"]

----------------------------------------------------------------------------
(* The manager's state as a value: a (active_connections), r (frontend_ready), *)
(* b (_backlog), h (lock holder), w (lock waiters)                             *)

Mgr ==
    [a |-> active_connections, r |-> frontend_ready, b |-> backlog,
     h |-> lockHolder, w |-> lockWaiters]

SetMgr(m) ==
    /\ active_connections' = m.a
    /\ frontend_ready' = m.r
    /\ backlog' = m.b
    /\ lockHolder' = m.h
    /\ lockWaiters' = m.w

\* asyncio.Lock.acquire without suspension: the lock is free and nobody waits
LockFree(m) == m.h = 0 /\ m.w = <<>>

Acquire(m, t) == [m EXCEPT !.h = t]

Enqueue(m, t) == [m EXCEPT !.w = Append(m.w, t)]

\* asyncio.Lock.release: the first waiter, if any, is woken and owns the lock
Release(m) ==
    IF m.w = <<>> THEN [m EXCEPT !.h = 0]
    ELSE [m EXCEPT !.h = Head(m.w), !.w = Tail(m.w)]

\* disconnect without the reset of frontend_ready
DisconnectKeepsReady(m, ws) ==
    [m EXCEPT !.a = IF Contains(m.a, ws) THEN Remove(m.a, ws) ELSE m.a]

\* ConnectionManager.disconnect
Disconnect(m, ws) ==
    LET a == IF Contains(m.a, ws) THEN Remove(m.a, ws) ELSE m.a
    IN  [m EXCEPT !.a = a, !.r = IF a = <<>> THEN FALSE ELSE m.r]

\* _safe_broadcast leaving the connections whose send failed in the list
PruneKeepsStale(m, stale) == m

RECURSIVE Prune(_, _)
\* _safe_broadcast: for ws in stale: self.disconnect(ws)
Prune(m, stale) ==
    IF stale = <<>> THEN m ELSE Prune(Disconnect(m, Head(stale)), Tail(stale))

\* the bounded append with pop() in place of pop(0): the newest entry goes
PushDropsNewest(b, msg) ==
    IF Len(b) >= BACKLOG_SIZE THEN Append(SubSeq(b, 1, Len(b) - 1), msg) ELSE Append(b, msg)

\* broadcast, not ready: the bounded append to the backlog
Push(b, msg) ==
    IF Len(b) >= BACKLOG_SIZE THEN Append(Tail(b), msg) ELSE Append(b, msg)

----------------------------------------------------------------------------
(* ConnectionManager.broadcast and ConnectionManager.mark_ready, up to the *)
(* first point where the calling task suspends                              *)

NoSb == [message |-> EventMsg(0), conns |-> <<>>, stale |-> <<>>]
NoEv == [id |-> 0, stage |-> 0, anomaly |-> FALSE]
NoFlush == [slice |-> <<>>, i |-> 0]

\* broadcast(msg) called by task t. kind: "done" (returned), "lock" (suspended
\* on the lock), "send" (suspended in the first send_json of _safe_broadcast)
BroadcastEnter(m, t, msg) ==
    IF ~m.r
    THEN IF LockFree(m)
         THEN [kind |-> "done", m |-> [m EXCEPT !.b = Push(m.b, msg)], conns |-> <<>>]
         ELSE [kind |-> "lock", m |-> Enqueue(m, t), conns |-> <<>>]
    ELSE IF m.a = <<>>
         THEN [kind |-> "done", m |-> m, conns |-> <<>>]
         ELSE [kind |-> "send", m |-> m, conns |-> m.a]

\* ingest_event from its broadcast call number `stage` on (1: the event, 2: the
\* anomaly message), until the handler suspends or returns
RunBroadcasts(m, h, id, stage, anom) ==
    LET msg1 == IF stage = 1 THEN EventMsg(id) ELSE AnomalyMsg(id)
        r1 == BroadcastEnter(m, h, msg1)
        c1 == [message |-> msg1, ready |-> m.r, task |-> h]
    IN  IF r1.kind = "done" /\ stage = 1 /\ anom
        THEN LET msg2 == AnomalyMsg(id)
                 r2 == BroadcastEnter(r1.m, h, msg2)
                 c2 == [message |-> msg2, ready |-> r1.m.r, task |-> h]
             IN  [kind |-> r2.kind, m |-> r2.m, conns |-> r2.conns, stage |-> 2,
                  message |-> msg2, calls |-> <<c1, c2>>]
        ELSE [kind |-> r1.kind, m |-> r1.m, conns |-> r1.conns, stage |-> stage,
              message |-> msg1, calls |-> <<c1>>]

\* ingest_event after its broadcast call number `stage` has returned
AfterBroadcast(m, h, id, stage, anom) ==
    IF stage = 1 /\ anom
    THEN RunBroadcasts(m, h, id, 2, anom)
    ELSE [kind |-> "done", m |-> m, conns |-> <<>>, stage |-> stage,
          message |-> EventMsg(0), calls |-> <<>>]

\* The handler h takes the position the result r describes
HandlerGoes(h, id, anom, r) ==
    /\ SetMgr(r.m)
    /\ calls' = calls \o r.calls
    /\ pc' = [pc EXCEPT ![h] = CASE r.kind = "done" -> "idle"
                                 [] r.kind = "lock" -> "b_lock"
                                 [] OTHER -> "b_send"]
    /\ ev' = [ev EXCEPT ![h] = IF r.kind = "done" THEN NoEv
                               ELSE [id |-> id, stage |-> r.stage, anomaly |-> anom]]
    /\ sb' = [sb EXCEPT ![h] = IF r.kind = "send"
                               THEN [message |-> r.message, conns |-> r.conns, stale |-> <<>>]
                               ELSE NoSb]

\* mark_ready clearing the backlog only after a flush
MarkReadyKeepsBacklog(m0, s) ==
    LET m == [m0 EXCEPT !.r = TRUE]
    IN  IF m.b # <<>> /\ m.a # <<>>
        THEN [kind |-> "send", m |-> m, flush |-> [slice |-> LastN(m.b, BACKLOG_SIZE), i |-> 1],
              conns |-> m.a]
        ELSE [kind |-> "done", m |-> Release(m), flush |-> NoFlush, conns |-> <<>>]

\* mark_ready with a slice one entry short
MarkReadyShortSlice(m0, s) ==
    LET m == [m0 EXCEPT !.r = TRUE]
    IN  IF m.b # <<>> /\ m.a # <<>>
        THEN [kind |-> "send", m |-> m,
              flush |-> [slice |-> LastN(m.b, BACKLOG_SIZE - 1), i |-> 1], conns |-> m.a]
        ELSE [kind |-> "done", m |-> Release([m EXCEPT !.b = <<>>]), flush |-> NoFlush,
              conns |-> <<>>]

\* mark_ready once the lock is held by s
MarkReadyBody(m0, s) ==
    LET m == [m0 EXCEPT !.r = TRUE]
    IN  IF m.b # <<>> /\ m.a # <<>>
        THEN [kind |-> "send", m |-> m, flush |-> [slice |-> LastN(m.b, BACKLOG_SIZE), i |-> 1],
              conns |-> m.a]
        ELSE [kind |-> "done", m |-> Release([m EXCEPT !.b = <<>>]), flush |-> NoFlush,
              conns |-> <<>>]

\* mark_ready after the _safe_broadcast of entry fl.i of the slice has
\* returned. With no connection left the remaining passes send nothing and
\* do not suspend.
FlushNext(m, fl) ==
    IF fl.i < Len(fl.slice) /\ m.a # <<>>
    THEN [kind |-> "send", m |-> m, flush |-> [fl EXCEPT !.i = fl.i + 1], conns |-> m.a]
    ELSE [kind |-> "done", m |-> Release([m EXCEPT !.b = <<>>]), flush |-> NoFlush,
          conns |-> <<>>]

\* The session s takes the position the mark_ready result r describes
SessionGoes(s, r) ==
    /\ SetMgr(r.m)
    /\ pc' = [pc EXCEPT ![s] = IF r.kind = "send" THEN "mr_send" ELSE "recv"]
    /\ flush' = [flush EXCEPT ![s] = r.flush]
    /\ sb' = [sb EXCEPT ![s] = IF r.kind = "send"
                               THEN [message |-> r.flush.slice[r.flush.i], conns |-> r.conns,
                                     stale |-> <<>>]
                               ELSE NoSb]

----------------------------------------------------------------------------
(* JSON values of an event. Numbers of metrics are kept in tenths, so that  *)
(* the vibration threshold 0.8 is the integer 8. A string is a sequence of  *)
(* characters.                                                              *)

Digits == {"0", "1", "2", "3", "4", "5", "6", "7", "8", "9"}

DigitVal(c) ==
    CASE c = "0" -> 0 [] c = "1" -> 1 [] c = "2" -> 2 [] c = "3" -> 3 [] c = "4" -> 4
      [] c = "5" -> 5 [] c = "6" -> 6 [] c = "7" -> 7 [] c = "8" -> 8 [] c = "9" -> 9

IsDigits(s) == s # <<>> /\ \A i \in DOMAIN s : s[i] \in Digits

RECURSIVE DigitsVal(_)
DigitsVal(s) ==
    IF s = <<>> THEN 0 ELSE 10 * DigitsVal(SubSeq(s, 1, Len(s) - 1)) + DigitVal(s[Len(s)])

\* A scalar: k is "absent", "num" (n, in tenths), "str" (s) or "null"
Absent == [k |-> "absent", n |-> 0, s |-> <<>>]
Num(n) == [k |-> "num", n |-> n, s |-> <<>>]
Str(s) == [k |-> "str", n |-> 0, s |-> s]
Null == [k |-> "null", n |-> 0, s |-> <<>>]

\* float(x): ok is FALSE where Python raises
Float(x) ==
    CASE x.k = "num" -> [ok |-> TRUE, n |-> x.n]
      [] x.k = "str" /\ IsDigits(Strip(x.s)) -> [ok |-> TRUE, n |-> 10 * DigitsVal(Strip(x.s))]
      [] OTHER -> [ok |-> FALSE, n |-> 0]

\* The value under "metrics": k is "absent", "doc" (a document with the two
\* fields, each possibly absent) or "other" (a value that is no document)
NoMetrics == [k |-> "absent", temperature |-> Absent, vibration |-> Absent]
MetricsDoc(t, v) == [k |-> "doc", temperature |-> t, vibration |-> v]
NotADoc == [k |-> "other", temperature |-> Absent, vibration |-> Absent]

\* A payload document: other says whether it has a key besides "metrics"
Payload(other, metrics) == [other |-> other, metrics |-> metrics]
EmptyPayload == Payload(FALSE, NoMetrics)

\* bool(payload) of a dict
Truthy(p) == p.other \/ p.metrics.k # "absent"

\* The thresholds of the anomaly check, in tenths
TEMP_LOW == 180
TEMP_HIGH == 250
VIB_HIGH == 8

\* ingest_event: the payload stored for a validated IngestEvent e
PersistedPayload(e) ==
    IF Truthy(e.payload) THEN e.payload
    ELSE Payload(FALSE, IF e.metrics.k # "absent" THEN e.metrics
                        ELSE MetricsDoc(Absent, Absent))

\* x.get(key, 0) for a field of the metrics document
GetOr0(x) == IF x.k = "absent" THEN Num(0) ELSE x

\* The anomaly check with the lower edge of the band counted as a breach
AnomalyDueInclusive(p) ==
    LET m == IF p.metrics.k = "absent" THEN MetricsDoc(Absent, Absent) ELSE p.metrics
        temp == Float(GetOr0(m.temperature))
        vib == Float(GetOr0(m.vibration))
    IN  /\ m.k = "doc"
        /\ temp.ok
        /\ vib.ok
        /\ (temp.n <= TEMP_LOW \/ temp.n > TEMP_HIGH \/ vib.n > VIB_HIGH)

\* ingest_event: whether the anomaly check broadcasts a second message;
\* any exception inside the try block means it does not
AnomalyDue(p) ==
    LET m == IF p.metrics.k = "absent" THEN MetricsDoc(Absent, Absent) ELSE p.metrics
        temp == Float(GetOr0(m.temperature))
        vib == Float(GetOr0(m.vibration))
    IN  /\ m.k = "doc"
        /\ temp.ok
        /\ vib.ok
        /\ (temp.n < TEMP_LOW \/ temp.n > TEMP_HIGH \/ vib.n > VIB_HIGH)

\* A validated IngestEvent
IngestEvent(device, payload, metrics) ==
    [device_id |-> device, payload |-> payload, metrics |-> metrics]

\* The events the handlers ingest in the specification of the manager
MgrEvents ==
    { IngestEvent(<<"d">>, EmptyPayload, MetricsDoc(Num(220), Num(1))),
      IngestEvent(<<"d">>, EmptyPayload, MetricsDoc(Num(300), Num(1))) }

----------------------------------------------------------------------------
(* The push-channel sessions: websocket_endpoint *)

\* The frames a client sends
Frames == {<<"frontend:ready">>, <<" ", "Frontend:READY", " ">>, <<"ping">>}

\* str.lower() of the words the frames are made of
Lower(w) == IF w = "Frontend:READY" THEN "frontend:ready" ELSE w

\* msg.strip().lower() == "frontend:ready"
IsReadyFrame(f) ==
    LET t == Strip(f) IN Len(t) = 1 /\ Lower(t[1]) = "frontend:ready"

\* The token check comparing the query parameter as it came, not trimmed
TokenRejectedUntrimmed(tok) ==
    LET token == OrEmpty(tok)
        expected == Strip(OrEmpty(WS_FRONTEND_TOKEN))
    IN  expected # <<>> /\ token # WS_FRONTEND_TOKEN

\* websocket_endpoint: whether the presented token is turned away
TokenRejected(tok) ==
    LET token == Strip(OrEmpty(tok))
        expected == Strip(OrEmpty(WS_FRONTEND_TOKEN))
    IN  expected # <<>> /\ token # WS_FRONTEND_TOKEN

\* One more, counted up to 2
Counted(n) == IF n < 2 THEN n + 1 ELSE n

\* ConnectionManager.connect once the lock is held: append and release
ConnectBody(m, s) == Release([m EXCEPT !.a = Append(m.a, s)])

\* A client opens /ws/events with token tok: the token check, then accept and
\* connect up to the lock
WsAttempt(s, tok) ==
    /\ pc[s] = "idle"
    /\ \A s2 \in Sessions : s2 < s => pc[s2] # "idle"
    /\ wsToken' = [wsToken EXCEPT ![s] = tok]
    /\ IF TokenRejected(tok)
       THEN /\ closeCode' = [closeCode EXCEPT ![s] = 1008]
            /\ pc' = [pc EXCEPT ![s] = "rejected"]
            /\ UNCHANGED <<mgrVars, alive>>
       ELSE /\ alive' = [alive EXCEPT ![s] = TRUE]
            /\ closeCode' = closeCode
            /\ IF LockFree(Mgr)
               THEN /\ SetMgr(ConnectBody(Acquire(Mgr, s), s))
                    /\ pc' = [pc EXCEPT ![s] = "recv"]
               ELSE /\ SetMgr(Enqueue(Mgr, s))
                    /\ pc' = [pc EXCEPT ![s] = "connect_lock"]
    /\ UNCHANGED <<sb, flush, ev, sent, calls, marks, events, now, rateVars, SIMULATION_ACTIVE,
                   resp, cfgVars>>

\* connect resumes with the lock
ConnectLocked(s) ==
    /\ pc[s] = "connect_lock"
    /\ lockHolder = s
    /\ SetMgr(ConnectBody(Mgr, s))
    /\ pc' = [pc EXCEPT ![s] = "recv"]
    /\ UNCHANGED <<sb, flush, ev, wsVars, calls, marks, events, now, rateVars, SIMULATION_ACTIVE,
                   resp, cfgVars>>

\* The client side of the session goes away
ClientClose(s) ==
    /\ alive[s]
    /\ alive' = [alive EXCEPT ![s] = FALSE]
    /\ UNCHANGED <<mgrVars, taskVars, wsToken, closeCode, sent, calls, marks, events, now,
                   rateVars, SIMULATION_ACTIVE, resp, cfgVars>>

\* receive_text returns the frame f (a frame the client sent before it went
\* away may still be received): a ready frame calls mark_ready up to the
\* lock or the first send, any other frame is ignored
RecvFrame(s, f) ==
    /\ pc[s] = "recv"
    /\ IF IsReadyFrame(f)
       THEN IF LockFree(Mgr)
            THEN /\ SessionGoes(s, MarkReadyBody(Acquire(Mgr, s), s))
                 /\ marks' = Counted(marks)
            ELSE /\ SetMgr(Enqueue(Mgr, s))
                 /\ pc' = [pc EXCEPT ![s] = "mr_lock"]
                 /\ UNCHANGED <<sb, flush, marks>>
       ELSE UNCHANGED <<mgrVars, pc, sb, flush, marks>>
    /\ UNCHANGED <<ev, wsVars, calls, events, now, rateVars, SIMULATION_ACTIVE, resp,
                   cfgVars>>

\* mark_ready resumes with the lock
MarkReadyLocked(s) ==
    /\ pc[s] = "mr_lock"
    /\ lockHolder = s
    /\ SessionGoes(s, MarkReadyBody(Mgr, s))
    /\ marks' = Counted(marks)
    /\ UNCHANGED <<ev, wsVars, calls, events, now, rateVars, SIMULATION_ACTIVE, resp,
                   cfgVars>>

\* receive_text raises WebSocketDisconnect: manager.disconnect(websocket)
RecvDisconnect(s) ==
    /\ pc[s] = "recv"
    /\ ~alive[s]
    /\ SetMgr(Disconnect(Mgr, s))
    /\ pc' = [pc EXCEPT ![s] = "closed"]
    /\ UNCHANGED <<sb, flush, ev, wsVars, calls, marks, events, now, rateVars, SIMULATION_ACTIVE,
                   resp, cfgVars>>

----------------------------------------------------------------------------
(* Delivery: _safe_broadcast, one send_json at a time *)

\* The task t (a session flushing in mark_ready, or a handler in broadcast)
\* resumes from send_json to the next connection of its snapshot. The send
\* raises if the client has gone away. After the last connection the stale
\* ones are disconnected and the caller goes on to its next suspension.
SendStep(t) ==
    /\ pc[t] \in {"mr_send", "b_send"}
    /\ LET ws == Head(sb[t].conns)
           ok == alive[ws]
           stale == IF ok THEN sb[t].stale ELSE Append(sb[t].stale, ws)
           rest == Tail(sb[t].conns)
           m1 == Prune(Mgr, stale)
       IN  /\ sent' = IF ok
                      THEN [sent EXCEPT ![ws] = Append(@, [message |-> sb[t].message, by |-> t])]
                      ELSE sent
           /\ IF rest # <<>>
              THEN /\ sb' = [sb EXCEPT ![t] = [@ EXCEPT !.conns = rest, !.stale = stale]]
                   /\ UNCHANGED <<mgrVars, pc, flush, ev, calls>>
              ELSE IF t \in Sessions
                   THEN /\ SessionGoes(t, FlushNext(m1, flush[t]))
                        /\ UNCHANGED <<ev, calls>>
                   ELSE /\ HandlerGoes(t, ev[t].id, ev[t].anomaly,
                               AfterBroadcast(m1, t, ev[t].id, ev[t].stage, ev[t].anomaly))
                        /\ UNCHANGED flush
    /\ UNCHANGED <<alive, wsToken, closeCode, marks, events, now, rateVars, SIMULATION_ACTIVE,
                   resp, cfgVars>>

\* broadcast resumes with the lock: the bounded append, the release, and the
\* handler goes on
BroadcastLocked(h) ==
    /\ pc[h] = "b_lock"
    /\ lockHolder = h
    /\ LET msg == IF ev[h].stage = 1 THEN EventMsg(ev[h].id) ELSE AnomalyMsg(ev[h].id)
           m1 == Release([Mgr EXCEPT !.b = Push(backlog, msg)])
       IN  HandlerGoes(h, ev[h].id, ev[h].anomaly,
               AfterBroadcast(m1, h, ev[h].id, ev[h].stage, ev[h].anomaly))
    /\ UNCHANGED <<flush, wsVars, marks, events, now, rateVars, SIMULATION_ACTIVE, resp, cfgVars>>

----------------------------------------------------------------------------
(* ingest_event from the insert on, for a request that passed every check *)

EventRow(id, e) ==
    [id |-> id, device_id |-> e.device_id, timestamp |-> now,
     payload |-> PersistedPayload(e)]

\* The insert, the broadcast of the event and the anomaly check
IngestTail(h, e) ==
    LET id == Len(events) + 1
        row == EventRow(id, e)
    IN  /\ events' = Append(events, row)
        /\ HandlerGoes(h, id, AnomalyDue(row.payload),
               RunBroadcasts(Mgr, h, id, 1, AnomalyDue(row.payload)))

\* The run's bound on broadcast calls leaves room for those of the event e
WithinCalls(e) ==
    Len(calls) + (IF AnomalyDue(PersistedPayload(e)) THEN 2 ELSE 1) <= MaxCalls

\* A handler of /ingest reaches the insert with the validated event e
IngestAccepted(h, e) ==
    /\ pc[h] = "idle"
    /\ WithinCalls(e)
    /\ IngestTail(h, e)
    /\ UNCHANGED <<flush, wsVars, marks, now, rateVars, SIMULATION_ACTIVE, resp, cfgVars>>

----------------------------------------------------------------------------
(* HTTP requests *)

\* Bounds of the HTTP side, made small: MAX_BODY_BYTES (51200 unless the
\* environment sets it), RATE_LIMIT_WINDOW (60), RATE_LIMIT_MAX (120)
MAX_BODY_BYTES == 3
RATE_LIMIT_WINDOW == 2
RATE_LIMIT_MAX == 2
\* The last instant of the clock
MaxTime == 4

\* constr(min_length=1, max_length=128)
DEVICE_ID_MIN == 1
DEVICE_ID_MAX == 128
\* confloat(ge=-50, le=200) and confloat(ge=0, le=100), in tenths
TEMP_MIN == -500
TEMP_MAX == 2000
VIB_MIN == 0
VIB_MAX == 1000

IPs == {"10.0.0.1", "10.0.0.2"}

\* hmac.new(secret, body, sha256).hexdigest(): a digest is what it was made
\* of (no collisions); upper marks a copy of it in upper case
Hmac(secret, bodyId) == [secret |-> secret, body |-> bodyId, upper |-> FALSE]
Upper(sig) == [sig EXCEPT !.upper = TRUE]
\* The empty string, which is what a missing X-Signature header reads as
NoSig == [secret |-> <<>>, body |-> 0, upper |-> FALSE]

\* A request body: its identity as a byte string, whether json.loads accepts
\* it, and the document it parses to. device_id is None when the key is
\* missing; payloadIsDoc is FALSE when "payload" holds something that is no
\* dictionary.
Body(id, json, device, payloadIsDoc, payload, metrics) ==
    [id |-> id, json |-> json, device_id |-> device, payloadIsDoc |-> payloadIsDoc,
     payload |-> payload, metrics |-> metrics]

LongName == [i \in 1 .. (DEVICE_ID_MAX + 1) |-> "x"]

Request(key, sig, body, length, ip) ==
    [key |-> key, sig |-> sig, body |-> body, length |-> length, ip |-> ip]

NoBody == Body(0, FALSE, None, TRUE, EmptyPayload, NoMetrics)
NoReq == Request(None, NoSig, NoBody, None, "")

\* int(x) of a header value: surrounding blanks and one sign are allowed
IntBody(x) ==
    LET t == Strip(x) IN IF t # <<>> /\ Head(t) \in {"+", "-"} THEN Tail(t) ELSE t

ParsesInt(x) == IsDigits(IntBody(x))

IntVal(x) ==
    LET t == Strip(x)
    IN  IF t # <<>> /\ Head(t) = "-" THEN 0 - DigitsVal(IntBody(x)) ELSE DigitsVal(IntBody(x))

\* The size check turning away a Content-Length it cannot parse as well
TooLargeOrUnparsed(length) ==
    length # None /\ (~ParsesInt(length) \/ IntVal(length) > MAX_BODY_BYTES)

\* LimitBodyMiddleware.dispatch: whether the request is answered 413
TooLarge(length) ==
    length # None /\ ParsesInt(length) /\ IntVal(length) > MAX_BODY_BYTES

\* bool(s) of an optional string
Configured(s) == s # None /\ s # <<>>

\* The key check letting through any key that is presented
RequireApiKeyAnyKey(key) ==
    IF API_KEY = None \/ API_KEY = <<>> THEN 500
    ELSE IF key = None THEN 401
    ELSE 0

\* require_api_key: 0 when it lets the request through
RequireApiKey(key) ==
    IF ~Configured(API_KEY) THEN 500
    ELSE IF key # API_KEY THEN 401
    ELSE 0

\* check_rate_limit rejecting only above the maximum
CheckRateLimitOffByOne(store, ip, t) ==
    LET window_start == t - RATE_LIMIT_WINDOW
        timestamps == SelectSeq(store[ip], LAMBDA x : x >= window_start)
    IN  IF Len(timestamps) > RATE_LIMIT_MAX
        THEN [ok |-> FALSE, store |-> store]
        ELSE [ok |-> TRUE, store |-> [store EXCEPT ![ip] = Append(timestamps, t)]]

\* check_rate_limit keeping only the timestamps after the start of the window
CheckRateLimitStrict(store, ip, t) ==
    LET window_start == t - RATE_LIMIT_WINDOW
        timestamps == SelectSeq(store[ip], LAMBDA x : x > window_start)
    IN  IF Len(timestamps) >= RATE_LIMIT_MAX
        THEN [ok |-> FALSE, store |-> store]
        ELSE [ok |-> TRUE, store |-> [store EXCEPT ![ip] = Append(timestamps, t)]]

\* check_rate_limit(ip) at time t on the store: the decision and the store
CheckRateLimit(store, ip, t) ==
    LET window_start == t - RATE_LIMIT_WINDOW
        timestamps == SelectSeq(store[ip], LAMBDA x : x >= window_start)
    IN  IF Len(timestamps) >= RATE_LIMIT_MAX
        THEN [ok |-> FALSE, store |-> store]
        ELSE [ok |-> TRUE, store |-> [store EXCEPT ![ip] = Append(timestamps, t)]]

\* ingest_event: whether the inline signature check turns the request away
HmacRejected(req) ==
    /\ Configured(HMAC_SECRET)
    /\ Hmac(HMAC_SECRET, req.body.id) # req.sig

\* Metrics(**m): both fields are required, are converted to float and must
\* lie in their ranges
MetricsValid(m) ==
    LET t == Float(m.temperature)
        v == Float(m.vibration)
    IN  /\ m.k = "doc"
        /\ t.ok /\ TEMP_MIN <= t.n /\ t.n <= TEMP_MAX
        /\ v.ok /\ VIB_MIN <= v.n /\ v.n <= VIB_MAX

\* IngestEvent(**payload) raises
Invalid(b) ==
    \/ b.device_id = None
    \/ Len(b.device_id) < DEVICE_ID_MIN
    \/ Len(b.device_id) > DEVICE_ID_MAX
    \/ ~b.payloadIsDoc
    \/ (b.metrics.k # "absent" /\ ~MetricsValid(b.metrics))

\* The IngestEvent a valid body makes
Validated(b) ==
    IngestEvent(b.device_id, b.payload,
        IF b.metrics.k = "absent" THEN NoMetrics
        ELSE MetricsDoc(Num(Float(b.metrics.temperature).n), Num(Float(b.metrics.vibration).n)))

\* The answer of /ingest to req when the limiter's decision is rateOk: the
\* middleware, the dependency, then the handler's checks in their order.
\* 200 stands for reaching the insert.
IngestStatus(req, rateOk) ==
    CASE TooLarge(req.length) -> 413
      [] RequireApiKey(req.key) # 0 -> RequireApiKey(req.key)
      [] ~rateOk -> 429
      [] HmacRejected(req) -> 401
      [] ~req.body.json -> 400
      [] Invalid(req.body) -> 400
      [] OTHER -> 200

\* Whether the request gets as far as check_rate_limit
ReachesLimiter(req) == ~TooLarge(req.length) /\ RequireApiKey(req.key) = 0

\* POST /ingest with request req, handled by h up to its first suspension
\* inside broadcast
HttpIngest(h, req) ==
    /\ pc[h] = "idle"
    /\ LET rate == CheckRateLimit(rate_store, req.ip, now)
           status == IngestStatus(req, rate.ok)
       IN  /\ status = 200 => WithinCalls(Validated(req.body))
           /\ IF ReachesLimiter(req)
              THEN /\ rate_store' = rate.store
                   /\ accepted' = IF rate.ok THEN [accepted EXCEPT ![req.ip] = Append(@, now)]
                                  ELSE accepted
              ELSE UNCHANGED rateVars
           /\ IF status = 200
              THEN IngestTail(h, Validated(req.body))
              ELSE UNCHANGED <<mgrVars, pc, sb, ev, calls, events>>
           /\ resp' = [op |-> "ingest", req |-> req, status |-> status,
                       id |-> IF status = 200 THEN Len(events) + 1 ELSE 0,
                       active |-> SIMULATION_ACTIVE, limit |-> 0, rows |-> <<>>]
    /\ UNCHANGED <<flush, wsVars, marks, now, SIMULATION_ACTIVE, cfgVars>>

\* POST /simulator/toggle presenting key
SimulatorToggle(key) ==
    /\ LET status == IF RequireApiKey(key) = 0 THEN 200 ELSE RequireApiKey(key)
           active == IF status = 200 THEN ~SIMULATION_ACTIVE ELSE SIMULATION_ACTIVE
       IN  /\ SIMULATION_ACTIVE' = active
           /\ resp' = [op |-> "toggle", req |-> Request(key, NoSig, NoBody, None, ""),
                       status |-> status, id |-> 0, active |-> active, limit |-> 0, rows |-> <<>>]
    /\ UNCHANGED <<mgrVars, taskVars, wsVars, calls, marks, events, now, rateVars, cfgVars>>

\* check_rate_limit called for the address ip
RateCheck(ip) ==
    /\ LET rate == CheckRateLimit(rate_store, ip, now)
       IN  /\ rate_store' = rate.store
           /\ accepted' = IF rate.ok THEN [accepted EXCEPT ![ip] = Append(@, now)]
                          ELSE accepted
           /\ resp' = [op |-> "rate", req |-> Request(None, NoSig, NoBody, None, ip),
                       status |-> IF rate.ok THEN 200 ELSE 429, id |-> 0,
                       active |-> SIMULATION_ACTIVE, limit |-> 0, rows |-> <<>>]
    /\ UNCHANGED <<mgrVars, taskVars, wsVars, calls, marks, events, now, SIMULATION_ACTIVE,
                   cfgVars>>

\* s reversed
Reverse(s) == [i \in 1 .. Len(s) |-> s[Len(s) + 1 - i]]

\* .limit(n) on a result: its first n rows
FirstN(s, n) == IF Len(s) <= n THEN s ELSE SubSeq(s, 1, n)

\* order_by(timestamp.desc()): q lists every row of the table once, a later
\* timestamp before an earlier one; the engine picks the order of the rows
\* whose timestamps are equal
OrderedDesc(q) ==
    /\ Len(q) = Len(events)
    /\ \A i \in DOMAIN events : Contains(q, events[i])
    /\ \A i, j \in DOMAIN q : i < j => q[i].timestamp >= q[j].timestamp

\* The orders in which the engine can return the table
Orderings ==
    { q \in UNION {[1 .. Len(events) -> {events[i] : i \in DOMAIN events}]} : OrderedDesc(q) }

\* list_events without the reversal of the query's result
ListRowsNewestFirst(q, limit) == FirstN(q, limit)

\* list_events: the first `limit` rows of the ordered result, reversed
ListRows(q, limit) == Reverse(FirstN(q, limit))

\* The limit query parameters of GET /events
Limits == 0 .. (MaxCalls + 1)

\* GET /events?limit=...
ListEvents(limit) ==
    /\ \E q \in Orderings :
          resp' = [op |-> "list", req |-> NoReq, status |-> 200, id |-> 0,
                   active |-> SIMULATION_ACTIVE, limit |-> limit, rows |-> ListRows(q, limit)]
    /\ UNCHANGED <<mgrVars, taskVars, wsVars, calls, marks, events, now, rateVars,
                   SIMULATION_ACTIVE, cfgVars>>

\* Time passes
Tick ==
    /\ now < MaxTime
    /\ now' = now + 1
    /\ UNCHANGED <<mgrVars, taskVars, wsVars, calls, marks, events, rateVars, SIMULATION_ACTIVE,
                   resp, cfgVars>>

----------------------------------------------------------------------------
(* The initial state and the specification of the connection manager *)

NoResp == [op |-> "none", req |-> NoReq, status |-> 0, id |-> 0, active |-> TRUE, limit |-> 0, rows |-> <<>>]

InitState ==
    /\ active_connections = <<>>
    /\ frontend_ready = FALSE
    /\ backlog = <<>>
    /\ lockHolder = 0
    /\ lockWaiters = <<>>
    /\ pc = [t \in Tasks |-> "idle"]
    /\ sb = [t \in Tasks |-> NoSb]
    /\ flush = [s \in Sessions |-> NoFlush]
    /\ ev = [h \in Handlers |-> NoEv]
    /\ alive = [s \in Sessions |-> FALSE]
    /\ wsToken = [s \in Sessions |-> None]
    /\ closeCode = [s \in Sessions |-> 0]
    /\ sent = [s \in Sessions |-> <<>>]
    /\ calls = <<>>
    /\ marks = 0
    /\ events = <<>>
    /\ now = 0
    /\ rate_store = [ip \in IPs |-> <<>>]
    /\ accepted = [ip \in IPs |-> <<>>]
    /\ SIMULATION_ACTIVE = TRUE
    /\ resp = NoResp

Init ==
    /\ InitState
    /\ API_KEY = <<"k">>
    /\ HMAC_SECRET = <<"s">>
    /\ WS_FRONTEND_TOKEN = <<"t", "k">>

Next ==
    \/ \E s \in Sessions, tok \in MgrTokens : WsAttempt(s, tok)
    \/ \E s \in Sessions : ConnectLocked(s)
    \/ \E s \in Sessions : ClientClose(s)
    \/ \E s \in Sessions, f \in Frames : RecvFrame(s, f)
    \/ \E s \in Sessions : MarkReadyLocked(s)
    \/ \E s \in Sessions : RecvDisconnect(s)
    \/ \E t \in Tasks : SendStep(t)
    \/ \E h \in Handlers : BroadcastLocked(h)
    \/ \E h \in Handlers, e \in MgrEvents : IngestAccepted(h, e)

Spec == Init /\ [][Next]_vars

----------------------------------------------------------------------------
(* The push-channel token gate alone: any configured token, any presented *)
(* token, no ingestion                                                     *)

InitWs ==
    /\ InitState
    /\ API_KEY = <<"k">>
    /\ HMAC_SECRET = <<"s">>
    /\ \E raw \in TokenEnv : WS_FRONTEND_TOKEN = Strip(OrEmpty(raw))

NextWs ==
    \/ \E s \in Sessions, tok \in QueryTokens : WsAttempt(s, tok)
    \/ \E s \in Sessions : ClientClose(s)
    \/ \E s \in Sessions, f \in Frames : RecvFrame(s, f)
    \/ \E s \in Sessions : RecvDisconnect(s)

SpecWs == InitWs /\ [][NextWs]_vars

----------------------------------------------------------------------------
(* The rate limiter alone: checks from two addresses as time passes *)

NextRate ==
    \/ \E ip \in IPs : RateCheck(ip)
    \/ Tick

SpecRate == Init /\ [][NextRate]_vars

----------------------------------------------------------------------------
(* The gates of the HTTP routes: any configuration of the two secrets, any *)
(* key, signature and Content-Length                                       *)

SecretEnv == {None, <<>>, <<"s">>}
KeyEnv == {None, <<>>, <<"k">>}
Keys == {None, <<>>, <<"k">>, <<"x">>}
Lengths ==
    {None, <<>>, <<"3">>, <<"4">>, <<"1", "0">>, <<"0", "2">>, <<"a">>, <<"9", "a">>,
     <<"-", "9">>, <<"+", "5">>, <<" ", "9">>}

GoodMetrics == MetricsDoc(Num(220), Num(1))
GoodBody == Body(1, TRUE, <<"d">>, TRUE, EmptyPayload, GoodMetrics)
BadJson == Body(2, FALSE, None, TRUE, EmptyPayload, NoMetrics)
GateBodies == {GoodBody, BadJson}

Signatures(b) ==
    {NoSig, Hmac(<<"s">>, b.id), Upper(Hmac(<<"s">>, b.id)), Hmac(<<"z">>, b.id),
     Hmac(<<"s">>, b.id + 1), Hmac(<<>>, b.id)}

\* Every key with every signature of either body, and every key with every
\* Content-Length
GateRequests ==
    { Request(k, sig, b, len, "10.0.0.1") :
        k \in Keys, sig \in UNION {Signatures(b1) : b1 \in GateBodies},
        b \in GateBodies, len \in {None} }
    \cup
    { Request(k, sig, GoodBody, len, "10.0.0.1") :
        k \in Keys, sig \in {NoSig, Hmac(<<"s">>, GoodBody.id)}, len \in Lengths }

InitGate ==
    /\ InitState
    /\ API_KEY \in KeyEnv
    /\ HMAC_SECRET \in SecretEnv
    /\ WS_FRONTEND_TOKEN = <<>>

NextGate ==
    \/ \E h \in Handlers, req \in GateRequests : HttpIngest(h, req)
    \/ \E k \in Keys : SimulatorToggle(k)

SpecGate == InitGate /\ [][NextGate]_vars

----------------------------------------------------------------------------
(* The ingestion of well-signed requests with any body *)

IngestBodies ==
    { GoodBody, BadJson,
      \* metrics out of the comfortable band, on its edges, out of range
      Body(3, TRUE, <<"d">>, TRUE, EmptyPayload, MetricsDoc(Num(300), Num(1))),
      Body(4, TRUE, <<"d">>, TRUE, EmptyPayload, MetricsDoc(Num(220), Num(9))),
      Body(5, TRUE, <<"d">>, TRUE, EmptyPayload, MetricsDoc(Num(180), Num(8))),
      Body(6, TRUE, <<"d">>, TRUE, EmptyPayload, MetricsDoc(Num(250), Num(0))),
      Body(7, TRUE, <<"d">>, TRUE, EmptyPayload, MetricsDoc(Num(2010), Num(1))),
      Body(8, TRUE, <<"d">>, TRUE, EmptyPayload, MetricsDoc(Num(220), Absent)),
      \* neither payload nor metrics
      Body(9, TRUE, <<"d">>, TRUE, EmptyPayload, NoMetrics),
      \* a payload of its own, with and without metrics beside it
      Body(10, TRUE, <<"d">>, TRUE, Payload(TRUE, NoMetrics), GoodMetrics),
      Body(11, TRUE, <<"d">>, TRUE,
           Payload(FALSE, MetricsDoc(Num(300), Str(<<"x">>))), NoMetrics),
      Body(12, TRUE, <<"d">>, TRUE,
           Payload(FALSE, MetricsDoc(Str(<<"2", "0">>), Absent)), NoMetrics),
      Body(13, TRUE, <<"d">>, TRUE, Payload(TRUE, NotADoc), NoMetrics),
      Body(14, TRUE, <<"d">>, TRUE,
           Payload(FALSE, MetricsDoc(Null, Num(9))), NoMetrics),
      Body(15, TRUE, <<"d">>, TRUE,
           Payload(TRUE, MetricsDoc(Num(220), Num(1))), NoMetrics),
      \* a bad device_id, a payload that is no document
      Body(16, TRUE, <<>>, TRUE, EmptyPayload, GoodMetrics),
      Body(17, TRUE, LongName, TRUE, EmptyPayload, GoodMetrics),
      Body(18, TRUE, None, TRUE, EmptyPayload, GoodMetrics),
      Body(19, TRUE, <<"d">>, FALSE, EmptyPayload, GoodMetrics) }

IngestRequests ==
    { Request(<<"k">>, Hmac(<<"s">>, b.id), b, None, "10.0.0.1") : b \in IngestBodies }

NextIngest ==
    \E h \in Handlers, req \in IngestRequests : HttpIngest(h, req)

SpecIngest == Init /\ [][NextIngest]_vars

----------------------------------------------------------------------------
(* The event listing: well-signed requests at any time, and GET /events *)

ListRequests ==
    { Request(<<"k">>, Hmac(<<"s">>, GoodBody.id), GoodBody, None, "10.0.0.1") }

NextList ==
    \/ \E h \in Handlers, req \in ListRequests : HttpIngest(h, req)
    \/ \E limit \in Limits : ListEvents(limit)
    \/ Tick

SpecList == Init /\ [][NextList]_vars

----------------------------------------------------------------------------
(* Vocabulary of the properties *)

RECURSIVE PushAll(_, _)
\* The backlog after the bounded append of each message of msgs in turn
PushAll(b, msgs) ==
    IF msgs = <<>> THEN b ELSE PushAll(Push(b, Head(msgs)), Tail(msgs))

Messages(cs) == [i \in DOMAIN cs |-> cs[i].message]

\* The broadcast calls made in this step
NewCalls == SubSeq(calls', Len(calls) + 1, Len(calls'))

\* The message of the broadcast call the handler h is inside
CurrentMsg(h) == IF ev[h].stage = 1 THEN EventMsg(ev[h].id) ELSE AnomalyMsg(ev[h].id)

\* This step is one of the handler h
HandlerStep(h) == pc'[h] # pc[h] \/ ev'[h] # ev[h] \/ sb'[h] # sb[h] \/ calls' # calls

\* The messages whose not-ready broadcast call returns in this step of h: the
\* call that waited for the lock, then the new calls that read frontend_ready
\* false, but for a last one left waiting for the lock
Buffered(h) ==
    LET nr == SelectSeq(NewCalls, LAMBDA c : ~c.ready)
        done == IF pc'[h] = "b_lock" THEN SubSeq(nr, 1, Len(nr) - 1) ELSE nr
    IN  (IF pc[h] = "b_lock" THEN <<CurrentMsg(h)>> ELSE <<>>) \o Messages(done)

\* The frames delivered to s by the broadcast calls of handlers (not by a flush)
Live(s) == SelectSeq(sent[s], LAMBDA d : d.by \in Handlers)

\* The frames delivered to s by the flush of the session f
Flushed(s, f) == SelectSeq(sent[s], LAMBDA d : d.by = f)

\* This step runs the body of mark_ready
MarkReadyStep ==
    \E s \in Sessions :
        \/ MarkReadyLocked(s)
        \/ \E f \in Frames : IsReadyFrame(f) /\ LockFree(Mgr) /\ RecvFrame(s, f)

----------------------------------------------------------------------------
(* C1: once the last active connection is disconnected frontend_ready is      *)
(* false; no step but the processing of a frontend:ready frame (mark_ready)   *)
(* makes it true, a later connect in particular does not; and a broadcast     *)
(* call that reads frontend_ready false appends its message to the backlog    *)
(* (bounded, oldest evicted) and its caller delivers it to no subscriber.     *)

C1_ResetOnEmpty ==
    (active_connections # <<>> /\ active_connections' = <<>>) => ~frontend_ready'

C1_OnlyMarkReady == (~frontend_ready /\ frontend_ready') => MarkReadyStep

C1_Buffers ==
    \A h \in Handlers :
        HandlerStep(h) => backlog' = PushAll(backlog, Buffered(h))

C1_NotDelivered ==
    \A i \in DOMAIN calls :
        ~calls[i].ready =>
            \A s \in Sessions : ~Contains(Messages(Live(s)), calls[i].message)

\* C1: the last disconnect resets frontend_ready, only mark_ready sets it, and
\* a broadcast call that reads it false buffers its message and delivers it to
\* no subscriber
C1_ReadyResetsAndBuffers ==
    [][C1_ResetOnEmpty /\ C1_OnlyMarkReady /\ C1_Buffers /\ C1_NotDelivered']_vars

\* mark_ready ran, every connection went away, a second session connected, and
\* a message broadcast since then sits in the backlog with the flag still false
C1_Witness ==
    /\ pc[1] = "closed"
    /\ pc[2] = "recv"
    /\ active_connections = <<2>>
    /\ ~frontend_ready
    /\ \E i, j \in DOMAIN calls :
          /\ i < j
          /\ calls[i].ready
          /\ ~calls[j].ready
          /\ Contains(backlog, calls[j].message)

----------------------------------------------------------------------------
(* C2: while no readiness signal has been processed the backlog holds the   *)
(* newest BACKLOG_SIZE of the messages broadcast so far, in broadcast order; *)
(* the first mark_ready, run with an active connection, takes exactly those  *)
(* as its slice, and when it returns every connection still active has been  *)
(* sent exactly that slice, in order, by the flush, and the backlog is empty. *)

C2_BeforeReady == marks = 0 => backlog = LastN(Messages(calls), BACKLOG_SIZE)

\* The first mark_ready starts a flush
C2_Start ==
    \A f \in Sessions :
        (marks = 0 /\ pc'[f] = "mr_send") =>
            flush'[f].slice = LastN(Messages(calls), BACKLOG_SIZE)

\* The first mark_ready returns from its flush
C2_Done ==
    \A f \in Sessions :
        (marks = 1 /\ marks' = 1 /\ pc[f] = "mr_send" /\ pc'[f] = "recv") =>
            /\ backlog' = <<>>
            /\ \A s \in Sessions :
                  Contains(active_connections', s) =>
                      Messages(Flushed(s, f))' = flush[f].slice

\* C2: the first mark_ready flushes exactly the newest BACKLOG_SIZE buffered
\* messages, in broadcast order, to every active connection, then empties the
\* backlog
C2_FlushNewest == [][C2_BeforeReady' /\ C2_Start /\ C2_Done]_vars

\* More messages than the backlog holds were broadcast before the first
\* readiness signal; its flush has returned and session 1, still connected, was
\* sent the newest BACKLOG_SIZE of them and not the oldest
C2_Witness ==
    /\ marks = 1
    /\ pc[1] = "recv"
    /\ Contains(active_connections, 1)
    /\ backlog = <<>>
    /\ Len(calls) > BACKLOG_SIZE
    /\ \A i \in DOMAIN calls : ~calls[i].ready
    /\ Len(sent[1]) = BACKLOG_SIZE
    /\ Messages(sent[1]) = LastN(Messages(calls), BACKLOG_SIZE)
    /\ ~Contains(Messages(sent[1]), calls[1].message)

----------------------------------------------------------------------------
(* C3: the backlog never holds more than BACKLOG_SIZE messages, whatever the *)
(* interleaving of connect, disconnect, mark_ready and broadcast; when the   *)
(* appends of a step overflow it, what is left is the newest BACKLOG_SIZE of *)
(* the old entries followed by the new ones: the oldest are the ones removed. *)

C3_Bounded == Len(backlog) <= BACKLOG_SIZE

C3_EvictsOldest ==
    \A h \in Handlers :
        (HandlerStep(h) /\ Len(backlog) + Len(Buffered(h)) > BACKLOG_SIZE) =>
            backlog' = LastN(backlog \o Buffered(h), BACKLOG_SIZE)

\* C3: the backlog never exceeds BACKLOG_SIZE and an overflowing append evicts
\* the oldest entries
C3_BacklogBound == [][C3_Bounded' /\ C3_EvictsOldest]_vars

\* The backlog is full and the first message broadcast has been evicted from it
C3_Witness ==
    /\ marks = 0
    /\ Len(backlog) = BACKLOG_SIZE
    /\ Len(calls) > BACKLOG_SIZE
    /\ ~Contains(backlog, calls[1].message)
    /\ backlog[Len(backlog)] = calls[Len(calls)].message

----------------------------------------------------------------------------
(* The rate limiter. accepted[ip] is the history the code does not keep:   *)
(* the time of every request of ip that check_rate_limit accepted.         *)

\* The accepted requests of ip whose timestamp t has t >= at - RATE_LIMIT_WINDOW
InWindow(ip, at) == SelectSeq(accepted[ip], LAMBDA t : t >= at - RATE_LIMIT_WINDOW)

\* This step is a call of check_rate_limit (the clock stands still in it)
RateStep == now' = now /\ resp'.op = "rate"

\* The call accepts iff fewer than RATE_LIMIT_MAX accepted requests of the
\* same address are in the window
C4_Decision ==
    RateStep =>
        (resp'.status = 200 <=> Len(InWindow(resp'.req.ip, now)) < RATE_LIMIT_MAX)

\* An accepted request is recorded with its time, a rejected one is not
C4_Recorded ==
    RateStep =>
        LET ip == resp'.req.ip
        IN  /\ resp'.status \in {200, 429}
            /\ resp'.status = 200 =>
                   /\ accepted' = [accepted EXCEPT ![ip] = Append(@, now)]
                   /\ rate_store'[ip] = Append(InWindow(ip, now), now)
            /\ resp'.status = 429 => UNCHANGED <<accepted, rate_store>>

\* What is kept for the other addresses is left alone, and what is kept for
\* any address is its accepted requests from some time on
C4_OtherAddresses ==
    /\ RateStep => \A ip \in IPs \ {resp'.req.ip} : rate_store'[ip] = rate_store[ip]
    /\ \A ip \in IPs :
          \E k \in 0 .. Len(accepted'[ip]) :
              rate_store'[ip] = SubSeq(accepted'[ip], k + 1, Len(accepted'[ip]))

\* C4: check_rate_limit accepts a request of an address iff fewer than
\* RATE_LIMIT_MAX accepted requests of that address have a timestamp
\* t >= now - RATE_LIMIT_WINDOW; rejected attempts are not recorded; the
\* requests of other addresses do not enter the decision
C4_RateLimit == [][C4_Decision /\ C4_Recorded /\ C4_OtherAddresses]_vars

\* The first address filled its window, was accepted again once its oldest
\* request had left the window, and is now rejected on the requests still in
\* the window, while the second address has requests of its own accepted
C4_Witness ==
    /\ resp.op = "rate"
    /\ resp.status = 429
    /\ resp.req.ip = "10.0.0.1"
    /\ Len(accepted["10.0.0.1"]) > RATE_LIMIT_MAX
    /\ Len(InWindow("10.0.0.1", now)) = RATE_LIMIT_MAX
    /\ accepted["10.0.0.1"][1] < now - RATE_LIMIT_WINDOW
    /\ Len(accepted["10.0.0.2"]) = 1

----------------------------------------------------------------------------
(* The gates of /ingest *)

\* This step answers a request to /ingest
IngestStep == resp'.op = "ingest"

\* The request presented the configured API key
KeyValid(req) == API_KEY \notin {None, <<>>} /\ req.key = API_KEY

\* The request presented the lowercase hex HMAC-SHA256 of its body under the
\* configured secret
SigValid(req) ==
    HMAC_SECRET \notin {None, <<>>} /\ req.sig = Hmac(HMAC_SECRET, req.body.id)

\* C5: an /ingest request persists an event and is answered 200 only if it
\* presented the configured API key and the HMAC of its body under the
\* configured secret; a request failing either check persists no event and
\* broadcasts no message
C5_BothValid ==
    [][ (IngestStep /\ ~(KeyValid(resp'.req) /\ SigValid(resp'.req))) =>
            /\ resp'.status # 200
            /\ events' = events
            /\ calls' = calls ]_vars

\* C6: with no HMAC secret configured no /ingest request gets through: none
\* is answered 200, no event is persisted and no message is broadcast. (The
\* answers of the gates that come before the signature, 413 and the key's 500
\* and 401, are not held against the claim's 500 here.)
C6_FailsClosed ==
    HMAC_SECRET \in {None, <<>>} =>
        /\ events = <<>>
        /\ calls = <<>>
        /\ resp.op = "ingest" => resp.status # 200

----------------------------------------------------------------------------
(* The anomaly check of an accepted /ingest call *)

\* This step accepts a request to /ingest
AcceptStep == IngestStep /\ resp'.status = 200

\* The payload persisted in this step
Persisted == events'[Len(events')].payload

\* A field of the metrics that is missing, or that float() converts
Numeric(x) == x.k = "absent" \/ Float(x).ok

\* Its value, a missing field read as 0
Value(x) == IF x.k = "absent" THEN 0 ELSE Float(x).n

\* Temperature below 18 or above 25, or vibration above 0.8, on the fields
\* that are numbers
Breach(m) ==
    \/ Numeric(m.temperature) /\ Value(m.temperature) < TEMP_LOW
    \/ Numeric(m.temperature) /\ Value(m.temperature) > TEMP_HIGH
    \/ Numeric(m.vibration) /\ Value(m.vibration) > VIB_HIGH

\* The broadcast calls of an accepted request: the plain event, and after it
\* the same document marked as an anomaly when two is TRUE
CallsAre(two) ==
    Messages(NewCalls) =
        IF two THEN <<EventMsg(resp'.id), AnomalyMsg(resp'.id)>> ELSE <<EventMsg(resp'.id)>>

\* C7 as stated: two broadcast calls when the persisted metrics, missing
\* fields read as 0, breach a threshold, and exactly one otherwise
C7_AsStated == [][AcceptStep => CallsAre(Breach(Persisted.metrics))]_vars

\* C7: an accepted /ingest call makes exactly two broadcast calls (the plain
\* event, then the same document with type "anomaly") when the persisted
\* metrics is missing or a document, each of its two fields is missing or
\* converts to a number, and the values breach a threshold; exactly one (the
\* plain event) otherwise
C7_AnomalyBroadcasts ==
    [][AcceptStep =>
          CallsAre(/\ Persisted.metrics.k # "other"
                   /\ Numeric(Persisted.metrics.temperature)
                   /\ Numeric(Persisted.metrics.vibration)
                   /\ Breach(Persisted.metrics))]_vars

\* An accepted event whose temperature is above the band and whose vibration
\* is no number was broadcast once
C7_Witness ==
    /\ resp.op = "ingest"
    /\ resp.status = 200
    /\ Len(events) = 1
    /\ events[1].payload.metrics.k = "doc"
    /\ events[1].payload.metrics.temperature = Num(300)
    /\ ~Float(events[1].payload.metrics.vibration).ok
    /\ Messages(calls) = <<EventMsg(1)>>

----------------------------------------------------------------------------
(* The body-size middleware *)

\* C8: a request whose Content-Length parses as an integer above
\* MAX_BODY_BYTES is answered 413 before the handler: no event, no broadcast,
\* no rate-limit timestamp; one whose Content-Length is missing or does not
\* parse is not answered 413
C8_BodyLimit ==
    [][IngestStep =>
          LET length == resp'.req.length
          IN  /\ (ParsesInt(length) /\ IntVal(length) > MAX_BODY_BYTES) =>
                     /\ resp'.status = 413
                     /\ UNCHANGED <<events, calls, backlog, rate_store, accepted>>
              /\ (length = None \/ ~ParsesInt(length)) => resp'.status # 413]_vars

\* A request with the right key and signature that declared too long a body
\* was answered 413, and nothing was stored for it
C8_Witness ==
    /\ resp.op = "ingest"
    /\ resp.status = 413
    /\ KeyValid(resp.req)
    /\ SigValid(resp.req)
    /\ events = <<>>
    /\ calls = <<>>
    /\ \A ip \in IPs : rate_store[ip] = <<>>

----------------------------------------------------------------------------
(* The token gate of the push channel *)

\* The session s makes its connection attempt in this step
AttemptStep(s) == pc[s] = "idle" /\ pc'[s] # "idle"

\* A token is configured and the trimmed query parameter is absent or differs
Mismatch(tok) ==
    /\ WS_FRONTEND_TOKEN # <<>>
    /\ (tok = None \/ Strip(tok) # WS_FRONTEND_TOKEN)

C9_Gate ==
    \A s \in Sessions :
        AttemptStep(s) =>
            IF Mismatch(wsToken'[s])
            THEN /\ closeCode'[s] = 1008
                 /\ pc'[s] = "rejected"
                 /\ active_connections' = active_connections
            ELSE /\ closeCode'[s] = 0
                 /\ active_connections' = Append(active_connections, s)

C9_NeverActive ==
    \A s \in Sessions : closeCode[s] = 1008 => ~Contains(active_connections, s)

\* C9: an attempt with a token configured and a trimmed token parameter that
\* is absent or different is closed with 1008 and the session is in
\* active_connections in no state; an attempt with the matching token, or any
\* attempt with no token configured, is accepted and appended to it
C9_TokenGate == [][C9_Gate /\ C9_NeverActive']_vars

\* With a token configured, the first session was closed with 1008 and the
\* second, whose parameter matched once trimmed, is an active connection
C9_Witness ==
    /\ WS_FRONTEND_TOKEN # <<>>
    /\ closeCode[1] = 1008
    /\ pc[1] = "rejected"
    /\ wsToken[2] # WS_FRONTEND_TOKEN
    /\ active_connections = <<2>>

----------------------------------------------------------------------------
(* The simulator toggle *)

\* This step answers a request to /simulator/toggle
ToggleStep == resp'.op = "toggle"

C10_Toggle ==
    ToggleStep =>
        CASE API_KEY \in {None, <<>>} ->
                 resp'.status = 500 /\ SIMULATION_ACTIVE' = SIMULATION_ACTIVE
          [] API_KEY \notin {None, <<>>} /\ resp'.req.key # API_KEY ->
                 resp'.status = 401 /\ SIMULATION_ACTIVE' = SIMULATION_ACTIVE
          [] OTHER ->
                 /\ resp'.status = 200
                 /\ SIMULATION_ACTIVE' = ~SIMULATION_ACTIVE
                 /\ resp'.active = SIMULATION_ACTIVE'

C10_OnlyToggle ==
    SIMULATION_ACTIVE' # SIMULATION_ACTIVE => ToggleStep /\ resp'.status = 200

\* C10: the toggle answers 500 with no API key configured and 401 with a
\* missing or different key, leaving the flag as it was; with the matching key
\* it negates the flag and returns the new value; the flag starts true and no
\* other operation changes it
C10_SimulatorToggle == (SIMULATION_ACTIVE = TRUE) /\ [][C10_Toggle /\ C10_OnlyToggle]_vars

\* The flag was switched off with the right key, and a later request with a
\* wrong key was answered 401 and left it off
C10_Witness ==
    /\ ~SIMULATION_ACTIVE
    /\ resp.op = "toggle"
    /\ resp.status = 401
    /\ resp.req.key # None
    /\ events # <<>>

----------------------------------------------------------------------------
(* The event listing *)

\* This step answers GET /events
ListStep == resp'.op = "list" /\ events' = events /\ now' = now

\* The rows of the table that the answer leaves out
LeftOut(rows) == { events[i] : i \in DOMAIN events } \ { rows[i] : i \in DOMAIN rows }

\* C11: with N persisted events and a limit L, 0 < L < N, list_events returns
\* exactly L entries, no event left out being more recent than a returned one,
\* arranged oldest-first; with L >= N it returns all N events oldest-first
C11_ListEvents ==
    [][ (ListStep /\ resp'.limit > 0) =>
          LET rows == resp'.rows
              N == Len(events)
              L == resp'.limit
          IN  /\ Len(rows) = IF L < N THEN L ELSE N
              /\ \A i \in DOMAIN rows : Contains(events, rows[i])
              /\ \A i, j \in DOMAIN rows : i < j => rows[i] # rows[j]
              /\ \A i, j \in DOMAIN rows : i < j => rows[i].timestamp <= rows[j].timestamp
              /\ \A e \in LeftOut(rows) :
                    \A i \in DOMAIN rows : e.timestamp <= rows[i].timestamp ]_vars

\* Three events persisted at three different times, listed with limit 2: the
\* answer is the second and the third, in that order
C11_Witness ==
    /\ resp.op = "list"
    /\ resp.limit = 2
    /\ Len(events) = 3
    /\ events[1].timestamp < events[2].timestamp
    /\ events[2].timestamp < events[3].timestamp
    /\ resp.rows = <<events[2], events[3]>>

----------------------------------------------------------------------------
(* The flush of the backlog and the broadcasts made while it runs *)

\* The first flush is running in session f and has not yet begun to send the
\* last message of its slice
FirstFlushPending(f) ==
    marks = 1 /\ pc[f] = "mr_send" /\ flush[f].i < Len(flush[f].slice)

\* C12: every subscriber is sent all the retained backlog messages before any
\* message whose broadcast call started after frontend_ready became true.
\* Stated for the first readiness signal, before which frontend_ready was
\* never true, so that every message a broadcast call delivers itself belongs
\* to a call that started after it: while the first flush still has a message
\* it has not begun to send, no active subscriber is sent such a message
C12_BacklogFirst ==
    [][ \A s, f \in Sessions :
          (FirstFlushPending(f) /\ Contains(active_connections, s)) =>
              Live(s)' = Live(s) ]_vars

----------------------------------------------------------------------------
(* The lock of the manager *)

\* The task t takes this step
Acts(t) ==
    \/ pc'[t] # pc[t]
    \/ sb'[t] # sb[t]
    \/ t \in Sessions /\ flush'[t] # flush[t]
    \/ t \in Handlers /\ ev'[t] # ev[t]

\* This step changes active_connections, frontend_ready or the backlog
MgrChanges ==
    <<active_connections, frontend_ready, backlog>>' #
        <<active_connections, frontend_ready, backlog>>

\* This step runs code that takes no lock: the disconnect of
\* websocket_endpoint, or a delivery pass of a broadcast call
Unlocked ==
    \/ \E s \in Sessions : pc[s] # "closed" /\ pc'[s] = "closed"
    \/ \E h \in Handlers : pc[h] = "b_send" /\ Acts(h)

\* C13: every step that changes active_connections, frontend_ready or the
\* backlog is executed by a task that holds the lock of the manager: by the
\* holder when the lock is held, and otherwise by code that takes it
C13_UnderLock ==
    [][ MgrChanges => IF lockHolder # 0 THEN Acts(lockHolder) ELSE ~Unlocked ]_vars

----------------------------------------------------------------------------
(* The rate limiter under concurrent requests. A call of check_rate_limit   *)
(* reads the clock, takes the free _rate_store_lock and returns without an  *)
(* await that suspends, so it is one step; concurrent requests are steps at *)
(* the same instant.                                                        *)

\* The requests of ip accepted with a timestamp from a to a + RATE_LIMIT_WINDOW
InSpan(ip, a) ==
    { i \in DOMAIN accepted[ip] :
        a <= accepted[ip][i] /\ accepted[ip][i] <= a + RATE_LIMIT_WINDOW }

\* C14: for every client address, the accepted requests whose timestamps lie
\* within any span of RATE_LIMIT_WINDOW seconds are never more than
\* RATE_LIMIT_MAX, however the requests interleave
C14_WindowBound ==
    \A ip \in IPs : \A a \in 0 .. MaxTime : Cardinality(InSpan(ip, a)) <= RATE_LIMIT_MAX

\* RATE_LIMIT_MAX requests of one address were accepted at the same instant
\* and one more, made at that instant, was rejected
C14_Witness ==
    /\ resp.op = "rate"
    /\ resp.status = 429
    /\ resp.req.ip = "10.0.0.2"
    /\ Len(accepted["10.0.0.2"]) = RATE_LIMIT_MAX
    /\ \A i \in DOMAIN accepted["10.0.0.2"] : accepted["10.0.0.2"][i] = now

----------------------------------------------------------------------------
(* The delivery pass of a broadcast call that read frontend_ready true *)

\* The elements of a list
Elems(q) == { q[i] : i \in DOMAIN q }

\* The broadcast call of h has sent msg to ws
Delivered(ws, h, msg) == Contains(sent[ws], [message |-> msg, by |-> h])

\* It has once this step is taken
DeliveredNext(ws, h, msg) == Contains(sent'[ws], [message |-> msg, by |-> h])

\* The subscribers of the pass h is in: those it has sent the message to,
\* those whose send failed, and those still to come
Snapshot(h) ==
    { ws \in Sessions :
        \/ Contains(sb[h].conns, ws)
        \/ Contains(sb[h].stale, ws)
        \/ Delivered(ws, h, sb[h].message) }

\* h resumes from the send to the last subscriber of its pass
PassEnds(h) == pc[h] = "b_send" /\ Len(sb[h].conns) = 1 /\ Acts(h)

\* h starts a pass: its subscribers are the active connections of that moment
C15_Starts ==
    \A h \in Handlers :
        (pc'[h] = "b_send" /\ (pc[h] # "b_send" \/ PassEnds(h))) =>
            /\ Snapshot(h)' = Elems(active_connections')
            /\ sb'[h].stale = <<>>

\* Inside a pass every subscriber is tried in its turn, whatever happened to
\* the ones before it, and none is dropped from the pass
C15_Continues ==
    \A h \in Handlers :
        (pc[h] = "b_send" /\ Acts(h)) =>
            LET ws == Head(sb[h].conns)
            IN  /\ DeliveredNext(ws, h, sb[h].message) \/ ~alive[ws]
                /\ ~PassEnds(h) =>
                       /\ Snapshot(h)' = Snapshot(h)
                       /\ sb'[h].conns = Tail(sb[h].conns)
                       /\ UNCHANGED <<active_connections, pc>>

\* When the pass ends every subscriber of it has been sent the message or is
\* no longer active, the subscribers removed are those whose send failed, and
\* the caller goes on
C15_Ends ==
    \A h \in Handlers :
        PassEnds(h) =>
            LET failed == { ws \in Snapshot(h) : ~DeliveredNext(ws, h, sb[h].message) }
            IN  /\ \A ws \in Snapshot(h) :
                      DeliveredNext(ws, h, sb[h].message) \/ ~Contains(active_connections', ws)
                /\ Elems(active_connections') = Elems(active_connections) \ failed
                /\ pc'[h] \in {"idle", "b_send", "b_lock"}

\* C15: a broadcast call that read frontend_ready true has, when it returns,
\* sent the message to every subscriber that was active when its pass started
\* or removed it from the active connections; a failed send does not stop the
\* sends to the others, removes only the subscribers whose send failed, and
\* does not reach the caller
C15_SafeBroadcast == [][C15_Starts /\ C15_Continues /\ C15_Ends]_vars

\* With two subscribers and no flush ever made, the send of a broadcast call
\* to the first failed and it was removed, while the second was sent the
\* message and stays active
C15_Witness ==
    /\ pc[1] = "recv"
    /\ ~alive[1]
    /\ active_connections = <<2>>
    /\ frontend_ready
    /\ \A s, f \in Sessions : Flushed(s, f) = <<>>
    /\ \E i \in DOMAIN calls :
          /\ calls[i].ready
          /\ Delivered(2, calls[i].task, calls[i].message)
          /\ ~Delivered(1, calls[i].task, calls[i].message)

----------------------------------------------------------------------------
(* mark_ready with a backlog and no active connection *)

\* The message is still on its way to the subscribers: in the backlog, in the
\* slice of a running flush, or in a broadcast call waiting for the lock
Retained(msg) ==
    \/ Contains(backlog, msg)
    \/ \E f \in Sessions : pc[f] = "mr_send" /\ Contains(flush[f].slice, msg)
    \/ \E h \in Handlers : pc[h] = "b_lock" /\ CurrentMsg(h) = msg

\* It is once this step is taken
RetainedNext(msg) ==
    \/ Contains(backlog', msg)
    \/ \E f \in Sessions : pc'[f] = "mr_send" /\ Contains(flush'[f].slice, msg)
    \/ \E h \in Handlers :
          pc'[h] = "b_lock" /\ msg = IF ev'[h].stage = 1 THEN EventMsg(ev'[h].id)
                                     ELSE AnomalyMsg(ev'[h].id)

\* The subscribers that have been sent msg
SentTo(msg) == { s \in Sessions : Contains(Messages(sent[s]), msg) }

\* mark_ready run with a backlog and no active connection sets the flag, sends
\* nothing, starts no flush and leaves none of the messages on its way
C16_Drops ==
    (MarkReadyStep /\ backlog # <<>> /\ active_connections = <<>>) =>
        /\ frontend_ready'
        /\ sent' = sent
        /\ backlog' = <<>>
        /\ \A s \in Sessions : pc'[s] # "mr_send"
        /\ \A i \in DOMAIN backlog : ~RetainedNext(backlog[i])

\* A buffered message that is no longer on its way is sent to no further
\* subscriber
C16_NeverLater ==
    \A s \in Sessions :
        (sent'[s] # sent[s]) =>
            \A i \in DOMAIN calls :
                (/\ ~calls[i].ready
                 /\ Contains(Messages(sent'[s]), calls[i].message)
                 /\ ~Retained(calls[i].message)) => s \in SentTo(calls[i].message)

\* C16: mark_ready called with a non-empty backlog and no active connection
\* sets frontend_ready, sends nothing and empties the backlog; the messages
\* it discards are delivered to no later subscriber
C16_DropsBacklog == [][C16_Drops /\ C16_NeverLater]_vars

\* The only session that ever connected was sent nothing of the second
\* message, which was buffered after the session had been removed; mark_ready
\* then ran with that backlog and no active connection: the flag is set, the
\* backlog is empty and nobody has the message
C16_Witness ==
    /\ pc[2] = "idle"
    /\ pc[3] = "idle"
    /\ frontend_ready
    /\ active_connections = <<>>
    /\ backlog = <<>>
    /\ Len(calls) = 2
    /\ calls[1].ready
    /\ ~calls[2].ready
    /\ SentTo(calls[2].message) = {}

----------------------------------------------------------------------------
(* The payload persisted by an accepted /ingest call *)

\* C17: the payload persisted by an accepted /ingest call is the supplied
\* payload when that is non-empty; otherwise, when metrics were supplied, the
\* document with the metrics under "metrics"; otherwise the empty document
C17_PersistedPayload ==
    [][ AcceptStep =>
          LET b == resp'.req.body
          IN  Persisted =
                  IF b.payload # EmptyPayload THEN b.payload
                  ELSE IF b.metrics.k # "absent" THEN Payload(FALSE, Validated(b).metrics)
                  ELSE EmptyPayload ]_vars

----------------------------------------------------------------------------
(* The ready flag and the active connections *)

\* No call of connect, mark_ready or broadcast is in progress
Quiescent ==
    /\ lockHolder = 0
    /\ lockWaiters = <<>>
    /\ \A t \in Tasks : pc[t] \in {"idle", "recv", "closed", "rejected"}

\* C18: in every state in which no manager operation is in progress,
\* frontend_ready true implies that there is an active connection
C18_ReadyImpliesActive == (Quiescent /\ frontend_ready) => active_connections # <<>>

----------------------------------------------------------------------------
(* The order of the two messages of an event *)

\* C19: no subscriber is sent the anomaly message of an event before it has
\* been sent the plain message of that event. Stated for the subscribers that
\* are sent both: the plain message is never sent after the anomaly message
C19_EventBeforeAnomaly ==
    \A s \in Sessions :
        \A i, j \in DOMAIN sent[s] :
            (i < j /\ sent[s][i].message.type = "anomaly") =>
                sent[s][j].message # EventMsg(sent[s][i].message.id)

----------------------------------------------------------------------------
(* The backlog while the manager is ready *)

\* No call of mark_ready or broadcast is in progress
NoCallInProgress ==
    \A t \in Tasks : pc[t] \notin {"mr_lock", "mr_send", "b_lock", "b_send"}

\* C20: in every state in which frontend_ready is true and no mark_ready or
\* broadcast call is in progress, the backlog is empty
C20_NothingStranded == (frontend_ready /\ NoCallInProgress) => backlog = <<>>

====
